---- MODULE Spec2Model ----
(***************************************************************************)
(* voicenote: the transcription path (main.do_transcription,               *)
(* transcriber.transcribe_audio, transcriber.transcribe_audio_openai) and  *)
(* the recording path (recorder.record_audio with its SIGINT handler and   *)
(* its audio callback).                                                    *)
(*                                                                         *)
(* Strings are sequences of one-character strings.  Times are whole        *)
(* seconds.  sys.exit(1) ends the operation: the position becomes "exit"   *)
(* and the error that was printed is kept in the outcome variable.         *)
(***************************************************************************)
EXTENDS Integers, Sequences, FiniteSets

VARIABLES
    \* ---- transcription path
    t_pc,               \* position inside do_transcription / transcribe_*
    transcription_mode, \* config["transcription_mode"], "absent" when the key is missing
    api_key,            \* os.environ.get("OPENAI_API_KEY"): "None", "" or a key
    st_size,            \* audio_path.stat().st_size, bytes
    segs,               \* the segments the backend has handed to the loop so far
    result_parts,       \* list of strings
    prev_end,
    transcription,      \* "".join(result_parts)
    transcript,         \* the returned value, transcription.strip()
    t_error,            \* which error message preceded sys.exit(1)
    requests,           \* calls of client.audio.transcriptions.create
    local_calls,        \* calls of transcribe_audio
    \* ---- recording path
    r_pc,               \* position of the foreground thread inside record_audio
    is_recording,       \* the global _is_recording
    recording_data,     \* the global _recording_data, a list of frames
    handler_installed,  \* signal.signal(SIGINT, _signal_handler) has run
    stream,             \* the sd.InputStream: "none", "open" or "closed"
    cb_pc,              \* the audio callback thread: "idle" or "append"
    cb_frame,           \* indata of the callback invocation in progress
    audio_data,         \* the returned array
    r_error,            \* which error ended the operation
    pushed,             \* history: the frames the callback has appended
    delivered,          \* history: callback invocations so far
    interrupts,         \* history: SIGINTs delivered so far
    frames_at_stop,     \* history: len(_recording_data) when the poll loop ended, -1 before
    open_attempts       \* history: times sd.InputStream(...) was entered

tvars == <<t_pc, transcription_mode, api_key, st_size, segs, result_parts,
           prev_end, transcription, transcript, t_error, requests, local_calls>>

rvars == <<r_pc, is_recording, recording_data, handler_installed, stream,
           cb_pc, cb_frame, audio_data, r_error, pushed, delivered, interrupts,
           frames_at_stop, open_attempts>>

vars == <<tvars, rvars>>

\* ------------------------------------------------------------------ bounds
MaxSegs == 2
MaxTime == 3
MaxBackendSegs == 1
MaxFrames == 3
MaxInterrupts == 2

\* --------------------------------------------------------------- constants
PAUSE_THRESHOLD == 2
SIZE_LIMIT_MB == 25
MB == 1024 * 1024

\* ------------------------------------------------------------------ strings
Whitespace == {" ", "\n"}

RECURSIVE LStrip(_)
LStrip(s) ==
    IF s = <<>> THEN s
    ELSE IF Head(s) \in Whitespace THEN LStrip(Tail(s)) ELSE s

RECURSIVE RStrip(_)
RStrip(s) ==
    IF s = <<>> THEN s
    ELSE IF s[Len(s)] \in Whitespace THEN RStrip(SubSeq(s, 1, Len(s) - 1)) ELSE s

\* str.strip()
Strip(s) == RStrip(LStrip(s))

\* "".join(parts)
RECURSIVE Join(_)
Join(parts) ==
    IF parts = <<>> THEN <<>> ELSE Head(parts) \o Join(Tail(parts))

\* ------------------------------------------------------------------ inputs
Texts == { <<" ">>, <<"a">>, <<" ", "b", "\n">> }

Segments ==
    { sg \in [start : 0..MaxTime, end : 0..MaxTime, text : Texts] :
        sg.start <= sg.end }

Modes == {"openai", "local", "absent"}

ApiKeys == {"None", "", "sk"}

Sizes ==
    { 0, SIZE_LIMIT_MB * MB - 1, SIZE_LIMIT_MB * MB, SIZE_LIMIT_MB * MB + 1,
      2 * SIZE_LIMIT_MB * MB }

\* ---------------------------------------------------------- the join loop
\* AppendSegment with the pause test written `gap > PAUSE_THRESHOLD`.
AppendSegmentStrictGap(parts, prev, sg) ==
    LET gap == sg.start - prev
        sep == IF parts # <<>> /\ gap > PAUSE_THRESHOLD THEN << <<"\n", "\n">> >>
               ELSE IF parts # <<>> THEN << <<" ">> >>
               ELSE <<>>
    IN  parts \o sep \o << Strip(sg.text) >>

\* One iteration of `for segment in segments:`: the new result_parts.
AppendSegment(parts, prev, sg) ==
    LET gap == sg.start - prev
        sep == IF parts # <<>> /\ gap >= PAUSE_THRESHOLD THEN << <<"\n", "\n">> >>
               ELSE IF parts # <<>> THEN << <<" ">> >>
               ELSE <<>>
    IN  parts \o sep \o << Strip(sg.text) >>

\* TooLarge with the test written `file_size_mb >= 25`.
TooLargeInclusive(size) == size >= SIZE_LIMIT_MB * MB

\* file_size_mb > 25, with file_size_mb = st_size / (1024 * 1024): the
\* division is by a power of two, hence exact, so the test is on the bytes.
TooLarge(size) == size > SIZE_LIMIT_MB * MB

\* NoKey with the test written `if api_key is None:`.
NoKeyIsNone(k) == k = "None"

\* `if not api_key:`
NoKey(k) == k = "None" \/ k = ""

\* config.get("transcription_mode", "local")
ConfigMode(m) == IF m = "absent" THEN "local" ELSE m

\* The recorder before record_audio is called: the module's globals.
RecorderIdle ==
    /\ r_pc = "idle"
    /\ is_recording = FALSE
    /\ recording_data = <<>>
    /\ handler_installed = FALSE
    /\ stream = "none"
    /\ cb_pc = "idle"
    /\ cb_frame = <<>>
    /\ audio_data = <<>>
    /\ r_error = "none"
    /\ pushed = <<>>
    /\ delivered = 0
    /\ interrupts = 0
    /\ frames_at_stop = -1
    /\ open_attempts = 0

\* The state before do_transcription is called, for an environment
\* (credential, file size) drawn from the given sets.
InitTranscription(keys, sizes) ==
    /\ t_pc = "start"
    /\ transcription_mode \in Modes
    /\ api_key \in keys
    /\ st_size \in sizes
    /\ segs = <<>>
    /\ result_parts = <<>>
    /\ prev_end = 0
    /\ transcription = <<>>
    /\ transcript = <<>>
    /\ t_error = "none"
    /\ requests = 0
    /\ local_calls = 0
    /\ RecorderIdle

Exit(err) ==
    /\ t_pc' = "exit"
    /\ t_error' = err

\* main.do_transcription
DoTranscription ==
    /\ t_pc = "start"
    /\ IF ConfigMode(transcription_mode) = "openai"
       THEN /\ t_pc' = "openai_key"
            /\ UNCHANGED local_calls
       ELSE /\ t_pc' = "local_model"
            /\ local_calls' = local_calls + 1
    /\ UNCHANGED rvars
    /\ UNCHANGED <<transcription_mode, api_key, st_size, segs, result_parts,
                   prev_end, transcription, transcript, t_error, requests>>

\* transcribe_audio_openai: the credential check
CheckKey ==
    /\ t_pc = "openai_key"
    /\ IF NoKey(api_key)
       THEN Exit("missing_credential")
       ELSE /\ t_pc' = "openai_size"
            /\ UNCHANGED t_error
    /\ UNCHANGED rvars
    /\ UNCHANGED <<transcription_mode, api_key, st_size, segs, result_parts,
                   prev_end, transcription, transcript, requests, local_calls>>

\* transcribe_audio_openai: the file size check
CheckSize ==
    /\ t_pc = "openai_size"
    /\ IF TooLarge(st_size)
       THEN Exit("payload_too_large")
       ELSE /\ t_pc' = "openai_request"
            /\ UNCHANGED t_error
    /\ UNCHANGED rvars
    /\ UNCHANGED <<transcription_mode, api_key, st_size, segs, result_parts,
                   prev_end, transcription, transcript, requests, local_calls>>

\* AfterRequestFailure with the request sent again instead.
RetryRequest ==
    /\ t_pc' = "openai_request"
    /\ UNCHANGED t_error

\* After a failed request: the except clause reports and exits.
AfterRequestFailure == Exit("service_error")

\* transcribe_audio_openai: client.audio.transcriptions.create(...)
SendRequest ==
    /\ t_pc = "openai_request"
    /\ requests' = requests + 1
    /\ \E ok \in BOOLEAN :
         IF ok
         THEN /\ t_pc' = "loop"
              /\ result_parts' = <<>>
              /\ prev_end' = 0
              /\ UNCHANGED t_error
         ELSE /\ AfterRequestFailure
              /\ UNCHANGED <<result_parts, prev_end>>
    /\ UNCHANGED rvars
    /\ UNCHANGED <<transcription_mode, api_key, st_size, segs,
                   transcription, transcript, local_calls>>

\* transcribe_audio: WhisperModel(...) and model.transcribe(...)
LocalTranscribe ==
    /\ t_pc = "local_model"
    /\ \E ok \in BOOLEAN :
         IF ok
         THEN /\ t_pc' = "loop"
              /\ result_parts' = <<>>
              /\ prev_end' = 0
              /\ UNCHANGED t_error
         ELSE /\ Exit("transcription_error")
              /\ UNCHANGED <<result_parts, prev_end>>
    /\ UNCHANGED rvars
    /\ UNCHANGED <<transcription_mode, api_key, st_size, segs,
                   transcription, transcript, requests, local_calls>>

\* One iteration of the join loop on the next segment of the backend, which
\* yields at most n segments.
LoopStep(n) ==
    /\ t_pc = "loop"
    /\ Len(segs) < n
    /\ \E sg \in Segments :
         /\ segs' = Append(segs, sg)
         /\ result_parts' = AppendSegment(result_parts, prev_end, sg)
         /\ prev_end' = sg.end
    /\ UNCHANGED rvars
    /\ UNCHANGED <<t_pc, transcription_mode, api_key, st_size,
                   transcription, transcript, t_error, requests, local_calls>>

\* The segments are exhausted: transcription = "".join(result_parts)
LoopEnd ==
    /\ t_pc = "loop"
    /\ transcription' = Join(result_parts)
    /\ t_pc' = "joined"
    /\ UNCHANGED rvars
    /\ UNCHANGED <<transcription_mode, api_key, st_size, segs, result_parts,
                   prev_end, transcript, t_error, requests, local_calls>>

\* Return without the final strip.
ReturnUnstripped ==
    /\ t_pc = "joined"
    /\ transcript' = transcription
    /\ t_pc' = "returned"
    /\ UNCHANGED rvars
    /\ UNCHANGED <<transcription_mode, api_key, st_size, segs, result_parts,
                   prev_end, transcription, t_error, requests, local_calls>>

\* return transcription.strip()
Return ==
    /\ t_pc = "joined"
    /\ transcript' = Strip(transcription)
    /\ t_pc' = "returned"
    /\ UNCHANGED rvars
    /\ UNCHANGED <<transcription_mode, api_key, st_size, segs, result_parts,
                   prev_end, transcription, t_error, requests, local_calls>>

\* The join loop under every backend, in an environment where the remote
\* backend's checks pass.
NextAssemble ==
    \/ DoTranscription
    \/ CheckKey
    \/ CheckSize
    \/ SendRequest
    \/ LocalTranscribe
    \/ LoopStep(MaxSegs)
    \/ LoopEnd
    \/ Return

InitAssemble == InitTranscription({"sk"}, {SIZE_LIMIT_MB * MB})

SpecAssemble == InitAssemble /\ [][NextAssemble]_vars

\* The choice of the backend and the remote backend's checks, in every
\* environment, on short segment sequences.
NextBackend ==
    \/ DoTranscription
    \/ CheckKey
    \/ CheckSize
    \/ SendRequest
    \/ LocalTranscribe
    \/ LoopStep(MaxBackendSegs)
    \/ LoopEnd
    \/ Return

InitBackend == InitTranscription(ApiKeys, Sizes)

SpecBackend == InitBackend /\ [][NextBackend]_vars

\* -------------------------------------------------------------- recording
\* indata blocks of the driver: mono, one or two samples each.
Frames == { <<1>>, <<2, 3>> }

\* The device argument: None, a digit string, a name some input device
\* matches, a name no input device matches.
Devices == {"None", "digits", "known_name", "unknown_name"}

\* np.concatenate(frames, axis=0).flatten()
RECURSIVE Concatenate(_)
Concatenate(frames) ==
    IF frames = <<>> THEN <<>> ELSE Head(frames) \o Concatenate(Tail(frames))

InitRecord ==
    /\ RecorderIdle
    /\ t_pc = "start"
    /\ transcription_mode = "local"
    /\ api_key = "None"
    /\ st_size = 0
    /\ segs = <<>>
    /\ result_parts = <<>>
    /\ prev_end = 0
    /\ transcription = <<>>
    /\ transcript = <<>>
    /\ t_error = "none"
    /\ requests = 0
    /\ local_calls = 0

InSession ==
    r_pc \in {"resolve", "install", "open", "poll", "sleep", "close", "check", "concat"}

\* sys.exit(1) inside record_audio
RecordExit(err) ==
    /\ r_pc' = "exit"
    /\ r_error' = err

\* RecordAudio without `global _is_recording`: the flag assigned is a local.
RecordAudioFlagLocal ==
    /\ r_pc = "idle"
    /\ recording_data' = <<>>
    /\ r_pc' = "resolve"
    /\ UNCHANGED <<is_recording, handler_installed, stream, cb_pc, cb_frame,
                   audio_data, r_error, pushed, delivered, interrupts>>
    /\ UNCHANGED <<tvars, frames_at_stop, open_attempts>>

\* record_audio is called: the globals are reset.
RecordAudio ==
    /\ r_pc = "idle"
    /\ recording_data' = <<>>
    /\ is_recording' = TRUE
    /\ r_pc' = "resolve"
    /\ UNCHANGED <<handler_installed, stream, cb_pc, cb_frame, audio_data,
                   r_error, pushed, delivered, interrupts>>
    /\ UNCHANGED <<tvars, frames_at_stop, open_attempts>>

\* The device argument is resolved to an id, or the operation ends.
ResolveDevice ==
    /\ r_pc = "resolve"
    /\ \E device \in Devices :
         IF device = "unknown_name"
         THEN RecordExit("device_not_found")
         ELSE /\ r_pc' = "install"
              /\ UNCHANGED r_error
    /\ UNCHANGED <<is_recording, recording_data, handler_installed, stream,
                   cb_pc, cb_frame, audio_data, pushed, delivered, interrupts>>
    /\ UNCHANGED <<tvars, frames_at_stop, open_attempts>>

\* signal.signal(signal.SIGINT, _signal_handler)
InstallHandler ==
    /\ r_pc = "install"
    /\ handler_installed' = TRUE
    /\ r_pc' = "open"
    /\ UNCHANGED <<is_recording, recording_data, stream, cb_pc, cb_frame,
                   audio_data, r_error, pushed, delivered, interrupts>>
    /\ UNCHANGED <<tvars, frames_at_stop, open_attempts>>

\* AfterOpenFailure with the open tried again instead.
RetryOpen ==
    /\ r_pc' = "open"
    /\ UNCHANGED r_error

\* After a failed open: the except clause reports and exits.
AfterOpenFailure == RecordExit("recording_error")

\* Entering `with sd.InputStream(...)`: the stream opens and starts, or the
\* except clause reports the failure and exits.
OpenStream ==
    /\ r_pc = "open"
    /\ open_attempts' = open_attempts + 1
    /\ \E ok \in BOOLEAN :
         IF ok
         THEN /\ stream' = "open"
              /\ r_pc' = "poll"
              /\ UNCHANGED r_error
         ELSE /\ AfterOpenFailure
              /\ UNCHANGED stream
    /\ UNCHANGED <<is_recording, recording_data, handler_installed, cb_pc,
                   cb_frame, audio_data, pushed, delivered, interrupts>>
    /\ UNCHANGED <<tvars, frames_at_stop>>

\* PollTest leaving the loop straight to the emptiness check, the stream
\* still open.
PollTestReadInsideWith ==
    /\ r_pc = "poll"
    /\ r_pc' = IF is_recording THEN "sleep" ELSE "check"
    /\ frames_at_stop' = IF is_recording THEN frames_at_stop ELSE Len(recording_data)
    /\ UNCHANGED <<is_recording, recording_data, handler_installed, stream,
                   cb_pc, cb_frame, audio_data, r_error, pushed, delivered,
                   interrupts>>
    /\ UNCHANGED <<tvars, open_attempts>>

\* `while _is_recording:`
PollTest ==
    /\ r_pc = "poll"
    /\ r_pc' = IF is_recording THEN "sleep" ELSE "close"
    /\ frames_at_stop' = IF is_recording THEN frames_at_stop ELSE Len(recording_data)
    /\ UNCHANGED <<is_recording, recording_data, handler_installed, stream,
                   cb_pc, cb_frame, audio_data, r_error, pushed, delivered,
                   interrupts>>
    /\ UNCHANGED <<tvars, open_attempts>>

\* sd.sleep(100)
Sleep ==
    /\ r_pc = "sleep"
    /\ r_pc' = "poll"
    /\ UNCHANGED <<is_recording, recording_data, handler_installed, stream,
                   cb_pc, cb_frame, audio_data, r_error, pushed, delivered,
                   interrupts>>
    /\ UNCHANGED <<tvars, frames_at_stop, open_attempts>>

\* Leaving the with block closes the stream; the close returns once no
\* callback invocation is in progress, and none starts afterwards.
CloseStream ==
    /\ r_pc = "close"
    /\ cb_pc = "idle"
    /\ stream' = "closed"
    /\ r_pc' = "check"
    /\ UNCHANGED <<is_recording, recording_data, handler_installed, cb_pc,
                   cb_frame, audio_data, r_error, pushed, delivered, interrupts>>
    /\ UNCHANGED <<tvars, frames_at_stop, open_attempts>>

\* `if len(_recording_data) == 0:`
CheckData ==
    /\ r_pc = "check"
    /\ IF Len(recording_data) = 0
       THEN RecordExit("no_audio")
       ELSE /\ r_pc' = "concat"
            /\ UNCHANGED r_error
    /\ UNCHANGED <<is_recording, recording_data, handler_installed, stream,
                   cb_pc, cb_frame, audio_data, pushed, delivered, interrupts>>
    /\ UNCHANGED <<tvars, frames_at_stop, open_attempts>>

\* audio_data = np.concatenate(...); return audio_data.flatten()
ReturnClip ==
    /\ r_pc = "concat"
    /\ audio_data' = Concatenate(recording_data)
    /\ r_pc' = "returned"
    /\ UNCHANGED <<is_recording, recording_data, handler_installed, stream,
                   cb_pc, cb_frame, r_error, pushed, delivered, interrupts>>
    /\ UNCHANGED <<tvars, frames_at_stop, open_attempts>>

\* _signal_handler without `global _is_recording`: the flag assigned is a local.
SignalHandlerFlagLocal == UNCHANGED is_recording

\* _signal_handler written `_is_recording = not _is_recording`.
SignalHandlerToggle == is_recording' = ~is_recording

\* _signal_handler
SignalHandler == is_recording' = FALSE

\* A SIGINT reaches the process while it runs: the installed handler runs on
\* the foreground thread between two of its steps; before the handler is
\* installed Python's default handler raises KeyboardInterrupt, which
\* nothing catches.
Interrupt ==
    /\ r_pc \notin {"exit", "killed", "returned"}
    /\ interrupts < MaxInterrupts
    /\ interrupts' = interrupts + 1
    /\ IF handler_installed
       THEN /\ SignalHandler
            /\ UNCHANGED <<r_pc, r_error>>
       ELSE /\ r_pc' = "killed"
            /\ r_error' = "keyboard_interrupt"
            /\ UNCHANGED is_recording
    /\ UNCHANGED <<recording_data, handler_installed, stream, cb_pc, cb_frame,
                   audio_data, pushed, delivered>>
    /\ UNCHANGED <<tvars, frames_at_stop, open_attempts>>

\* _audio_callback is invoked by the driver thread on a block and tests
\* `if _is_recording:`.
CallbackTest ==
    /\ stream = "open"
    /\ cb_pc = "idle"
    /\ delivered < MaxFrames
    /\ delivered' = delivered + 1
    /\ \E indata \in Frames :
         IF is_recording
         THEN /\ cb_pc' = "append"
              /\ cb_frame' = indata
         ELSE UNCHANGED <<cb_pc, cb_frame>>
    /\ UNCHANGED <<r_pc, is_recording, recording_data, handler_installed,
                   stream, audio_data, r_error, pushed, interrupts>>
    /\ UNCHANGED <<tvars, frames_at_stop, open_attempts>>

\* CallbackAppend written `_recording_data.insert(0, indata.copy())`.
CallbackInsertFront ==
    /\ cb_pc = "append"
    /\ recording_data' = <<cb_frame>> \o recording_data
    /\ pushed' = Append(pushed, cb_frame)
    /\ cb_pc' = "idle"
    /\ cb_frame' = <<>>
    /\ UNCHANGED <<r_pc, is_recording, handler_installed, stream, audio_data,
                   r_error, delivered, interrupts>>
    /\ UNCHANGED <<tvars, frames_at_stop, open_attempts>>

\* _recording_data.append(indata.copy())
CallbackAppend ==
    /\ cb_pc = "append"
    /\ recording_data' = Append(recording_data, cb_frame)
    /\ pushed' = Append(pushed, cb_frame)
    /\ cb_pc' = "idle"
    /\ cb_frame' = <<>>
    /\ UNCHANGED <<r_pc, is_recording, handler_installed, stream, audio_data,
                   r_error, delivered, interrupts>>
    /\ UNCHANGED <<tvars, frames_at_stop, open_attempts>>

NextRecord ==
    \/ RecordAudio
    \/ ResolveDevice
    \/ InstallHandler
    \/ OpenStream
    \/ PollTest
    \/ Sleep
    \/ CloseStream
    \/ CheckData
    \/ ReturnClip
    \/ Interrupt
    \/ CallbackTest
    \/ CallbackAppend

SpecRecord == InitRecord /\ [][NextRecord]_vars

\* The foreground thread from the poll loop on: it is never suspended for
\* good (sd.sleep(100) returns, the close returns once the callback has).
Foreground ==
    \/ PollTest
    \/ Sleep
    \/ CloseStream
    \/ CheckData
    \/ ReturnClip

\* The recorder with the foreground thread scheduled fairly and a callback
\* invocation in progress running to its end.
SpecRecordFair ==
    /\ InitRecord
    /\ [][NextRecord]_vars
    /\ WF_vars(Foreground)
    /\ WF_vars(CallbackAppend)

\* ------------------------------------------------------------------ claims

\* The separator the claim puts before segment cur when prev precedes it.
ClaimedSeparator(prev, cur) ==
    IF cur.start - prev.end >= 2 THEN <<"\n", "\n">> ELSE <<" ">>

\* The claimed assembly of a segment sequence, from its last segment back.
RECURSIVE ClaimedAssembly(_)
ClaimedAssembly(s) ==
    IF s = <<>> THEN <<>>
    ELSE IF Len(s) = 1 THEN Strip(s[1].text)
    ELSE ClaimedAssembly(SubSeq(s, 1, Len(s) - 1))
           \o ClaimedSeparator(s[Len(s) - 1], s[Len(s)])
           \o Strip(s[Len(s)].text)

\* C1: the text accumulated by the join loop, and the joined text before the
\* final strip, is the in-order concatenation of the trimmed segment texts,
\* the first without a separator, each later one after two newlines when
\* its start is at least 2 s after the previous segment's end and after one
\* space otherwise (a negative gap included).
C1_SegmentAssembly ==
    /\ t_pc = "loop" => Join(result_parts) = ClaimedAssembly(segs)
    /\ t_pc \in {"joined", "returned"} =>
          /\ Join(result_parts) = ClaimedAssembly(segs)
          /\ transcription = ClaimedAssembly(segs)

\* A second segment that starts before the first one ends was joined with
\* one space.
C1_Witness ==
    /\ t_pc = "joined"
    /\ Len(segs) = 2
    /\ segs[2].start < segs[1].end
    /\ transcription = <<"a", " ", "b">>

IsBlank(text) == \A i \in 1..Len(text) : text[i] \in Whitespace

\* C2 as stated: the returned Transcript is empty iff the segment sequence
\* is empty.
C2_EmptyIffNoSegments ==
    t_pc = "returned" => (transcript = <<>> <=> segs = <<>>)

\* C2 amended: the returned Transcript is empty iff every segment's text is
\* blank (whitespace only or empty), which the empty sequence satisfies.
C2_EmptyIffAllBlank ==
    t_pc = "returned" =>
        (transcript = <<>> <=> \A i \in 1..Len(segs) : IsBlank(segs[i].text))

\* Two blank segments were assembled and the Transcript is empty.
C2_Witness ==
    /\ t_pc = "returned"
    /\ Len(segs) = 2
    /\ \A i \in 1..Len(segs) : IsBlank(segs[i].text)
    /\ transcript = <<>>

Remote == ConfigMode(transcription_mode) = "openai"

\* C5 as stated: remote transcription of a file of more than 25 MB ends
\* with the payload-too-large error and sends no request.
C5_OversizeAlwaysPayloadError ==
    (Remote /\ st_size > 25 * 1024 * 1024) =>
        /\ requests = 0
        /\ t_pc = "exit" => t_error = "payload_too_large"

\* C5 amended: remote transcription of a file of more than 25 MB sends no
\* request and never reaches the request or the join loop; with a credential
\* present it ends with the payload-too-large error (without one, with the
\* missing-credential error); a file of at most 25 MB never gets the
\* payload-too-large error.
C5_OversizeRejectedBeforeRequest ==
    /\ (Remote /\ st_size > 25 * 1024 * 1024) =>
          /\ requests = 0
          /\ t_pc \in {"start", "openai_key", "openai_size", "exit"}
          /\ t_pc = "exit" =>
                t_error = IF api_key \in {"None", ""} THEN "missing_credential"
                          ELSE "payload_too_large"
    /\ st_size <= 25 * 1024 * 1024 => t_error # "payload_too_large"

\* A file one byte over the limit was rejected with a credential present.
C5_Witness ==
    /\ Remote
    /\ api_key = "sk"
    /\ st_size = 25 * 1024 * 1024 + 1
    /\ t_pc = "exit"
    /\ t_error = "payload_too_large"
    /\ requests = 0

\* C6: with the remote backend selected and no credential in the
\* environment, transcription ends with the missing-credential error, and
\* neither a request nor the local backend is ever invoked.
C6_MissingCredential ==
    (Remote /\ api_key \in {"None", ""}) =>
        /\ requests = 0
        /\ local_calls = 0
        /\ t_pc \in {"start", "openai_key", "exit"}
        /\ t_pc = "exit" => t_error = "missing_credential"

\* The remote backend ended with the missing-credential error on an empty
\* credential.
C6_Witness ==
    /\ Remote
    /\ api_key = ""
    /\ t_pc = "exit"
    /\ t_error = "missing_credential"

\* C7: an invocation of remote transcription sends at most one request; a
\* failed request ends the operation with the service error, the single
\* request being the only one.
C7_AtMostOneRequest ==
    /\ requests <= 1
    /\ t_error = "service_error" => (t_pc = "exit" /\ requests = 1)
    /\ t_pc \in {"loop", "joined", "returned"} /\ Remote => requests = 1

\* A request failed and the operation ended.
C7_Witness ==
    /\ t_pc = "exit"
    /\ t_error = "service_error"
    /\ requests = 1

\* The clip the claim describes: the frames in order, built from the last.
RECURSIVE ClaimedClip(_)
ClaimedClip(frames) ==
    IF frames = <<>> THEN <<>>
    ELSE ClaimedClip(SubSeq(frames, 1, Len(frames) - 1)) \o frames[Len(frames)]

RECURSIVE SampleCount(_)
SampleCount(frames) ==
    IF frames = <<>> THEN 0 ELSE Len(Head(frames)) + SampleCount(Tail(frames))

\* C3: a session in which the callback pushed at least one frame does not
\* end with the no-audio error, and the clip record_audio returns is the
\* pushed frames concatenated in push order, its sample count the sum of
\* theirs.
C3_ClipIsPushedFramesInOrder ==
    /\ r_pc = "returned" =>
          /\ pushed # <<>>
          /\ audio_data = ClaimedClip(pushed)
          /\ Len(audio_data) = SampleCount(pushed)
    /\ r_error = "no_audio" => pushed = <<>>
    /\ r_pc = "concat" => recording_data = pushed

\* Two frames of different sizes were pushed and returned in push order.
C3_Witness ==
    /\ r_pc = "returned"
    /\ pushed = << <<2, 3>>, <<1>> >>
    /\ audio_data = <<2, 3, 1>>

\* C4: when the poll loop ends with an empty buffer, record_audio fails with
\* the no-audio error and returns no clip.
C4_EmptyAtLoopExitFails ==
    frames_at_stop = 0 =>
        /\ r_pc \notin {"concat", "returned"}
        /\ r_pc = "exit" => r_error = "no_audio"

CtrlState ==
    IF ~InSession THEN "Idle"
    ELSE IF is_recording THEN "Recording"
    ELSE "Stopping"

\* A step along Idle -> Recording -> Stopping -> Idle, each for its cause.
ClaimedTransition ==
    \/ CtrlState' = CtrlState
    \/ /\ CtrlState = "Idle" /\ CtrlState' = "Recording"
       /\ r_pc = "idle" /\ r_pc' = "resolve"
    \/ /\ CtrlState = "Recording" /\ CtrlState' = "Stopping"
       /\ interrupts' = interrupts + 1
    \/ /\ CtrlState = "Stopping" /\ CtrlState' = "Idle"
       /\ frames_at_stop >= 0
       /\ stream = "closed"

\* The operation ends with an error that is not the no-audio error.
FailureExit ==
    /\ CtrlState \in {"Recording", "Stopping"}
    /\ CtrlState' = "Idle"
    /\ r_pc' \in {"exit", "killed"}
    /\ r_error' \in {"device_not_found", "recording_error", "keyboard_interrupt"}

\* C8 as stated: the controller state changes only along Idle -> Recording
\* (record_audio called) -> Stopping (interrupt) -> Idle (poll loop left,
\* stream closed).
C8_OnlyClaimedTransitions == [][ClaimedTransition]_vars

\* C8 amended: the controller state changes only along Idle -> Recording
\* (record_audio called) -> Stopping (interrupt) -> Idle (poll loop left,
\* stream closed), or from Recording or Stopping to Idle when the operation
\* ends with an error: device not found, stream failure, or an interrupt
\* before the handler is installed.
C8_ClaimedOrFailureExit == [][ClaimedTransition \/ FailureExit]_vars

\* A session went through Recording and Stopping and returned a clip.
C8_Witness ==
    /\ r_pc = "returned"
    /\ CtrlState = "Idle"
    /\ interrupts = 1
    /\ ~is_recording
    /\ stream = "closed"

\* C9: once an interrupt has cleared the flag, a further interrupt during
\* the session leaves the flag false and changes nothing else of the
\* program: buffer, position, stream, callback, result and error.
C9_FurtherInterruptNoEffect ==
    [][ (InSession /\ ~is_recording /\ interrupts >= 1
           /\ interrupts' = interrupts + 1) =>
        /\ is_recording' = FALSE
        /\ UNCHANGED <<r_pc, recording_data, handler_installed, stream, cb_pc,
                       cb_frame, audio_data, r_error, pushed, frames_at_stop>> ]_vars

\* A clip was returned after two interrupts.
C9_Witness ==
    /\ r_pc = "returned"
    /\ interrupts = 2
    /\ audio_data # <<>>

\* C10: while the controller reads the frame storage (the emptiness check
\* and the concatenation) the stream is closed and no callback invocation
\* is in progress.
C10_ReadAfterClose ==
    r_pc \in {"check", "concat"} => (stream = "closed" /\ cb_pc = "idle")

\* The controller is about to concatenate two frames.
C10_Witness ==
    /\ r_pc = "concat"
    /\ Len(recording_data) = 2
    /\ stream = "closed"

\* C11: the stream open is attempted at most once; when it fails,
\* record_audio ends with the recording (device) error after that single
\* attempt, the stream never opened, the poll loop never entered and left,
\* no callback invoked and no clip returned.
C11_OpenFailureEndsOperation ==
    /\ open_attempts <= 1
    /\ r_error = "recording_error" =>
          /\ r_pc = "exit"
          /\ open_attempts = 1
          /\ stream = "none"
          /\ frames_at_stop = -1
          /\ delivered = 0
          /\ audio_data = <<>>
    /\ r_pc \in {"poll", "sleep", "close", "check", "concat", "returned"} =>
          (stream # "none" /\ r_error # "recording_error")

\* The open failed and the operation ended.
C11_Witness ==
    /\ r_pc = "exit"
    /\ r_error = "recording_error"
    /\ open_attempts = 1
    /\ handler_installed

\* C12: once an interrupt has been delivered and the controller is in its
\* poll loop, record_audio eventually ends, returning a clip or failing
\* with the no-audio error; and the poll loop is left only after an
\* interrupt has cleared the flag.
C12_InterruptEndsRecording ==
    /\ (r_pc \in {"poll", "sleep"} /\ interrupts >= 1)
          ~> (r_pc = "returned" \/ (r_pc = "exit" /\ r_error = "no_audio"))
    /\ [](r_pc \in {"close", "check", "concat", "returned"} =>
            (interrupts >= 1 /\ ~is_recording))

\* The single interrupt came while frames were being recorded, and the
\* clip was returned.
C12_Witness ==
    /\ r_pc = "returned"
    /\ interrupts = 1
    /\ frames_at_stop >= 1
    /\ audio_data # <<>>

\* C13: within a session, once the flag is false the frame buffer never
\* changes again, whatever the callback does before the stream is closed.
C13_BufferFrozenOnceStopped ==
    [][ (InSession /\ ~is_recording) => recording_data' = recording_data ]_vars

====
